---- MODULE Spec2Model ----
(***************************************************************************)
(* Model of the allocation calculator of Smart-DCA-Tool                    *)
(* (src/investment_calculator.py).  Python floats are modelled as exact    *)
(* rationals [n, d] in lowest terms with d > 0; share counts are integers. *)
(* A Python dict is a function together with the insertion order of its    *)
(* keys.                                                                   *)
(***************************************************************************)
EXTENDS Integers, Sequences, FiniteSets, TLC

VARIABLES
    config,         \* self.config: portfolio, limits, crash_detection
    stock_prices,   \* the caller's stock price dict
    crypto_prices,  \* the caller's crypto price dict
    tao_price,      \* the caller's TAO/USD conversion price
    given,          \* history: the inputs as they were first supplied
    calls_left,     \* calls of calculate_weekly_investment the caller
                    \* has still to make
    pc,             \* position inside calculate_weekly_investment
    investments,    \* local dict of _calculate_stock_allocation
    total_cost,     \* local total_cost of _calculate_stock_allocation
    first_pass,     \* history: investments right after the rounding pass
    decrements,     \* history: decrements done by the correction loop
    results,        \* history: outcome of every finished call, in order
    crash_calls,    \* history: argument and result of every
                    \* _determine_crash_level call, in order
    detect_calls,   \* history: inputs, locals and result of every
                    \* detect_crash_opportunities call, in order
    rebalance_calls, \* history: inputs and result of every
                    \* calculate_rebalancing_adjustment call, in order
    units_calls,    \* history: inputs and result of every
                    \* calculate_optimal_purchase_units call, in order
    heap,           \* the dict objects callers have passed to
                    \* HistoryManager.record_investment, by reference
    data_investments, \* self.data['investments']: references into heap
    data_file,      \* the investments last written by _save_data
    record_calls,   \* history: argument and result of every
                    \* record_investment call, in order
    cache,          \* PriceFetcher.cache
    cache_expiry,   \* PriceFetcher.cache_expiry
    now,            \* datetime.now(), in ticks
    fetch_call,     \* history: the latest get_*_price(s) call, if any
    fell_back       \* history: per cache key, whether the latest call for
                    \* it returned the mock value

vars == <<config, stock_prices, crypto_prices, tao_price, given, calls_left, pc,
          investments, total_cost, first_pass, decrements, results, crash_calls,
          detect_calls, rebalance_calls, units_calls, heap, data_investments,
          data_file, record_calls, cache, cache_expiry, now, fetch_call,
          fell_back>>

weekly_vars == <<config, stock_prices, crypto_prices, tao_price, given,
                 calls_left, pc, investments, total_cost, first_pass,
                 decrements, results>>

crash_vars == <<crash_calls>>

history_vars == <<heap, data_investments, data_file, record_calls>>

fetcher_vars == <<cache, cache_expiry, now, fetch_call, fell_back>>

tool_vars == <<detect_calls, rebalance_calls, units_calls, history_vars,
               fetcher_vars>>

-----------------------------------------------------------------------------
(* Bounds of the model *)

MaxBudget == 6
MaxPrice == 4
MaxTaoLimit == 2
MaxTaoPrice == 2
MaxCalls == 2
MaxThresholdTenths == 4
MaxDropTenths == 4
MaxCrashCalls == 2
MaxCurrentPrice == 5
MaxHolding == 10
MaxRebalanceBudget == 4
MaxAmountHalves == 8
MaxPriceHalves == 6
MaxRecords == 4
MaxTime == 2
MaxQuote == 2

-----------------------------------------------------------------------------
(* Float arithmetic, as exact rationals *)

None == "None"

Abs(x) == IF x < 0 THEN -x ELSE x

RECURSIVE GCD(_, _)
GCD(a, b) == IF b = 0 THEN a ELSE GCD(b, a % b)

Rat(n, d) ==
    LET s == IF d < 0 THEN -1 ELSE 1
        g == GCD(Abs(n), Abs(d))
    IN  [n |-> (s * n) \div g, d |-> (s * d) \div g]

RatInt(i) == [n |-> i, d |-> 1]

RatAdd(a, b) == Rat(a.n * b.d + b.n * a.d, a.d * b.d)

RatSub(a, b) == Rat(a.n * b.d - b.n * a.d, a.d * b.d)

RatMul(a, b) == Rat(a.n * b.n, a.d * b.d)

RatDiv(a, b) == Rat(a.n * b.d, a.d * b.n)

RatLT(a, b) == a.n * b.d < b.n * a.d

RatLE(a, b) == a.n * b.d <= b.n * a.d

RatMin(a, b) == IF RatLT(b, a) THEN b ELSE a

IntMax(a, b) == IF b > a THEN b ELSE a

\* Python round(x) with one argument: nearest integer, ties to even
RoundHalfEven(x) ==
    LET q == x.n \div x.d
        r == x.n % x.d
    IN  IF 2 * r < x.d THEN q
        ELSE IF 2 * r > x.d THEN q + 1
        ELSE IF q % 2 = 0 THEN q ELSE q + 1

-----------------------------------------------------------------------------
(* Dicts *)

StockSymbols == <<"QQQ", "VOO", "GLDM">>

CryptoSymbols == <<"BTC", "BNB", "SOL", "ETH">>

Range(seq) == {seq[i] : i \in 1..Len(seq)}

\* the keys of dict d in iteration order
Items(order, d) == SelectSeq(order, LAMBDA s : s \in DOMAIN d)

RECURSIVE SumSeq(_, _)
SumSeq(order, f) ==
    IF order = <<>> THEN RatInt(0)
    ELSE RatAdd(f[Head(order)], SumSeq(Tail(order), f))

\* sum(d.values())
SumValues(order, d) == SumSeq(Items(order, d), d)

\* sum(data['amount'] for data in d.values())
SumAmounts(order, d) ==
    SumSeq(Items(order, d), [s \in DOMAIN d |-> d[s].amount])

-----------------------------------------------------------------------------
(* _calculate_stock_allocation *)

\* sum(allocations.values()): every configured ratio, priced or not
total_allocation(allocations) == SumValues(StockSymbols, allocations)

\* target_amount = budget * (ratio / total_allocation)
target_amount(budget, ratio, total) == RatMul(budget, RatDiv(ratio, total))

\* budget * (ratio / total_allocation) / prices[symbol]
target_shares(budget, ratio, total, price) ==
    RatDiv(RatMul(budget, RatDiv(ratio, total)), price)

\* variant: int() truncation in place of round()
rounded_shares_truncating(target) == IntMax(1, target.n \div target.d)

\* max(1, round(target_shares))
rounded_shares(target) == IntMax(1, RoundHalfEven(target))

\* shares * prices[symbol]
line_amount(shares, price) == RatMul(RatInt(shares), price)

stock_line(budget, ratio, total, price) ==
    LET shares == rounded_shares(target_shares(budget, ratio, total, price))
    IN  [amount |-> line_amount(shares, price),
         ratio  |-> ratio,
         price  |-> price,
         shares |-> shares]

\* the symbols the rounding pass allocates: configured and priced
allocated_symbols(allocations, prices) == DOMAIN allocations \cap DOMAIN prices

\* a division of the rounding pass meets a zero divisor
first_pass_raises(allocations, prices) ==
    \E s \in allocated_symbols(allocations, prices) :
        total_allocation(allocations).n = 0 \/ prices[s].n = 0

stock_first_pass(allocations, budget, prices) ==
    [s \in allocated_symbols(allocations, prices) |->
        stock_line(budget, allocations[s], total_allocation(allocations),
                   prices[s])]

\* budget * 1.5
max_budget(budget) == RatMul(budget, Rat(3, 2))

\* variant: the loop tests against twice the budget
over_budget_double(total, budget) == RatLT(RatMul(budget, RatInt(2)), total)

\* while total_cost > max_budget
over_budget(total, budget) == RatLT(max_budget(budget), total)

\* variant: a line with a single share still counts as reducible
reducible_to_zero(line) == line.shares >= 1

\* data['shares'] > 1
reducible(line) == line.shares > 1

RECURSIVE scan_max_price(_, _, _, _)
scan_max_price(order, inv, best, best_price) ==
    IF order = <<>> THEN best
    ELSE LET s == Head(order)
         IN  IF reducible(inv[s]) /\ RatLT(best_price, inv[s].price)
             THEN scan_max_price(Tail(order), inv, s, inv[s].price)
             ELSE scan_max_price(Tail(order), inv, best, best_price)

\* the first symbol of highest price among those holding more than one share
\* variant: on equal prices the last symbol in iteration order is taken
max_price_symbol_last_tie(inv) ==
    LET order == Items(StockSymbols, inv)
        cands == {i \in 1..Len(order) :
                     /\ inv[order[i]].shares > 1
                     /\ \A j \in 1..Len(order) :
                            inv[order[j]].shares > 1 =>
                                RatLE(inv[order[j]].price, inv[order[i]].price)}
    IN  IF cands = {} THEN None
        ELSE order[CHOOSE i \in cands : \A j \in cands : j <= i]

max_price_symbol(inv) ==
    scan_max_price(Items(StockSymbols, inv), inv, None, RatInt(0))

\* variant: the amount is left as it was
decrement_line_stale(line) == [line EXCEPT !.shares = line.shares - 1]

\* shares -= 1 and the amount recomputed
decrement_line(line) ==
    [line EXCEPT !.shares = line.shares - 1,
                 !.amount = line_amount(line.shares - 1, line.price)]

-----------------------------------------------------------------------------
(* _calculate_crypto_allocation *)

crypto_symbols_allocated(allocations, prices) ==
    DOMAIN allocations \cap DOMAIN prices

crypto_raises(allocations, prices) ==
    \E s \in crypto_symbols_allocated(allocations, prices) : prices[s].n = 0

calculate_crypto_allocation(allocations, budget, prices) ==
    [s \in crypto_symbols_allocated(allocations, prices) |->
        [amount   |-> RatMul(budget, allocations[s]),
         ratio    |-> allocations[s],
         price    |-> prices[s],
         quantity |-> RatDiv(RatMul(budget, allocations[s]), prices[s])]]

-----------------------------------------------------------------------------
(* calculate_weekly_investment, after the stock allocation returned *)

Raised(err) == [status |-> "raised", error |-> err, plan |-> <<>>]

Returned(plan) == [status |-> "returned", error |-> None, plan |-> plan]

\* variant: the two weights swapped
target_crypto_budget_swapped(actual_stock_cost, portfolio) ==
    RatMul(actual_stock_cost,
           RatDiv(portfolio.stock_weight, portfolio.crypto_weight))

\* actual_stock_cost * (crypto_weight / stock_weight)
target_crypto_budget(actual_stock_cost, portfolio) ==
    RatMul(actual_stock_cost,
           RatDiv(portfolio.crypto_weight, portfolio.stock_weight))

\* weekly_tao_limit * tao_price
tao_usd_value(limits, tao) == RatMul(limits.weekly_tao_limit, tao)

\* variant: max() in place of min()
actual_crypto_budget_max(actual_stock_cost, cfg, tao) ==
    LET a == target_crypto_budget(actual_stock_cost, cfg.portfolio)
        b == tao_usd_value(cfg.limits, tao)
    IN  IF RatLT(a, b) THEN b ELSE a

\* min(target_crypto_budget, tao_usd_value)
actual_crypto_budget(actual_stock_cost, cfg, tao) ==
    RatMin(target_crypto_budget(actual_stock_cost, cfg.portfolio),
           tao_usd_value(cfg.limits, tao))

weekly_raises(cfg, cprices, tao) ==
    \/ cfg.portfolio.stock_weight.n = 0
    \/ crypto_raises(cfg.portfolio.crypto_allocation, cprices)
    \/ tao.n = 0

weekly_plan(cfg, stocks, cprices, tao) ==
    LET actual_stock_cost == SumAmounts(StockSymbols, stocks)
        crypto_budget == actual_crypto_budget(actual_stock_cost, cfg, tao)
    IN  [stock_total       |-> actual_stock_cost,
         crypto_total      |-> crypto_budget,
         crypto_tao_amount |-> RatDiv(crypto_budget, tao),
         stocks            |-> stocks,
         cryptos           |-> calculate_crypto_allocation(
                                   cfg.portfolio.crypto_allocation,
                                   crypto_budget, cprices),
         total_budget      |-> RatAdd(actual_stock_cost, crypto_budget)]

weekly_outcome(cfg, stocks, cprices, tao) ==
    IF weekly_raises(cfg, cprices, tao)
    THEN Raised("ZeroDivisionError")
    ELSE Returned(weekly_plan(cfg, stocks, cprices, tao))

-----------------------------------------------------------------------------
(* Actions of calculate_weekly_investment *)

\* variant: the rounding pass stores the normalised ratios back into the
\* configured allocation
calculate_weekly_investment_call_normalising ==
    /\ pc = "idle"
    /\ calls_left > 0
    /\ calls_left' = calls_left - 1
    /\ LET budget == config.limits.weekly_usd_limit
           allocations == config.portfolio.stock_allocation
       IN  IF first_pass_raises(allocations, stock_prices)
           THEN /\ results' = Append(results, Raised("ZeroDivisionError"))
                /\ pc' = "idle"
                /\ investments' = <<>>
                /\ total_cost' = RatInt(0)
                /\ first_pass' = <<>>
                /\ UNCHANGED config
           ELSE /\ investments' =
                       stock_first_pass(allocations, budget, stock_prices)
                /\ total_cost' = SumAmounts(StockSymbols, investments')
                /\ first_pass' = investments'
                /\ pc' = "stock_loop"
                /\ config' = [config EXCEPT !.portfolio.stock_allocation =
                       [s \in DOMAIN allocations |->
                           IF s \in DOMAIN stock_prices
                           THEN RatDiv(allocations[s],
                                       total_allocation(allocations))
                           ELSE allocations[s]]]
                /\ UNCHANGED results
    /\ decrements' = 0
    /\ UNCHANGED <<stock_prices, crypto_prices, tao_price, given>>
    /\ UNCHANGED crash_vars
    /\ UNCHANGED tool_vars

\* entry, then the rounding pass of _calculate_stock_allocation up to the
\* first test of the correction loop
calculate_weekly_investment_call ==
    /\ pc = "idle"
    /\ calls_left > 0
    /\ calls_left' = calls_left - 1
    /\ LET budget == config.limits.weekly_usd_limit
           allocations == config.portfolio.stock_allocation
       IN  IF first_pass_raises(allocations, stock_prices)
           THEN /\ results' = Append(results, Raised("ZeroDivisionError"))
                /\ pc' = "idle"
                /\ investments' = <<>>
                /\ total_cost' = RatInt(0)
                /\ first_pass' = <<>>
           ELSE /\ investments' =
                       stock_first_pass(allocations, budget, stock_prices)
                /\ total_cost' = SumAmounts(StockSymbols, investments')
                /\ first_pass' = investments'
                /\ pc' = "stock_loop"
                /\ UNCHANGED results
    /\ decrements' = 0
    /\ UNCHANGED <<config, stock_prices, crypto_prices, tao_price, given>>
    /\ UNCHANGED crash_vars
    /\ UNCHANGED tool_vars

\* one iteration of the correction loop that finds a symbol to reduce
correction_decrement ==
    /\ pc = "stock_loop"
    /\ over_budget(total_cost, config.limits.weekly_usd_limit)
    /\ max_price_symbol(investments) # None
    /\ LET sym == max_price_symbol(investments)
       IN  investments' =
               [investments EXCEPT ![sym] = decrement_line(investments[sym])]
    /\ total_cost' = SumAmounts(StockSymbols, investments')
    /\ decrements' = decrements + 1
    /\ UNCHANGED <<config, stock_prices, crypto_prices, tao_price, given,
                   calls_left, pc, first_pass, results>>
    /\ UNCHANGED crash_vars
    /\ UNCHANGED tool_vars

\* variant: the loop may be left at any test
correction_exit_early ==
    /\ pc = "stock_loop"
    /\ pc' = "stock_done"
    /\ UNCHANGED <<config, stock_prices, crypto_prices, tao_price, given,
                   calls_left, investments, total_cost, first_pass,
                   decrements, results>>
    /\ UNCHANGED crash_vars
    /\ UNCHANGED tool_vars

\* the loop test fails, or no symbol holds more than one share: return
correction_exit ==
    /\ pc = "stock_loop"
    /\ \/ ~over_budget(total_cost, config.limits.weekly_usd_limit)
       \/ max_price_symbol(investments) = None
    /\ pc' = "stock_done"
    /\ UNCHANGED <<config, stock_prices, crypto_prices, tao_price, given,
                   calls_left, investments, total_cost, first_pass,
                   decrements, results>>
    /\ UNCHANGED crash_vars
    /\ UNCHANGED tool_vars

\* the crypto budget, the crypto allocation and the returned plan
calculate_weekly_investment_return ==
    /\ pc = "stock_done"
    /\ results' = Append(results,
           weekly_outcome(config, investments, crypto_prices, tao_price))
    /\ pc' = "idle"
    /\ investments' = <<>>
    /\ total_cost' = RatInt(0)
    /\ UNCHANGED <<config, stock_prices, crypto_prices, tao_price, given,
                   calls_left, first_pass, decrements>>
    /\ UNCHANGED crash_vars
    /\ UNCHANGED tool_vars

-----------------------------------------------------------------------------
(* _determine_crash_level *)

\* variant: the level 3 comparison reversed
determine_crash_level_reversed(drop, cc) ==
    IF RatLE(drop, cc.level3_threshold) THEN <<3, cc.level3_multiplier>>
    ELSE IF RatLE(cc.level2_threshold, drop) THEN <<2, cc.level2_multiplier>>
    ELSE IF RatLE(cc.level1_threshold, drop) THEN <<1, cc.level1_multiplier>>
    ELSE <<0, RatInt(1)>>

\* variant: the thresholds tested from lowest to highest
determine_crash_level_lowest_first(drop, cc) ==
    IF RatLE(cc.level1_threshold, drop) THEN <<1, cc.level1_multiplier>>
    ELSE IF RatLE(cc.level2_threshold, drop) THEN <<2, cc.level2_multiplier>>
    ELSE IF RatLE(cc.level3_threshold, drop) THEN <<3, cc.level3_multiplier>>
    ELSE <<0, RatInt(1)>>

determine_crash_level(drop, cc) ==
    IF RatLE(cc.level3_threshold, drop) THEN <<3, cc.level3_multiplier>>
    ELSE IF RatLE(cc.level2_threshold, drop) THEN <<2, cc.level2_multiplier>>
    ELSE IF RatLE(cc.level1_threshold, drop) THEN <<1, cc.level1_multiplier>>
    ELSE <<0, RatInt(1)>>

\* the drops the model classifies
Drops == {Rat(k, 10) : k \in (-1)..MaxDropTenths} \cup {Rat(21, 100)}

determine_crash_level_call ==
    /\ Len(crash_calls) < MaxCrashCalls
    /\ \E drop \in Drops :
          LET r == determine_crash_level(drop, config.crash_detection)
          IN  crash_calls' = Append(crash_calls,
                  [drop_percent |-> drop, level |-> r[1],
                   multiplier |-> r[2]])
    /\ UNCHANGED weekly_vars
    /\ UNCHANGED tool_vars

-----------------------------------------------------------------------------
(* detect_crash_opportunities *)

\* an Optional[float]: None, or a value
NoPrice == [some |-> FALSE, value |-> RatInt(0)]

SomePrice(v) == [some |-> TRUE, value |-> v]

\* what history_manager.get_average_cost does for one symbol: it raises,
\* returns None, or returns an average cost (positive or not)
HistoryOutcomes ==
    {[kind |-> k, value |-> RatInt(0)] : k \in {"raises", "none"}}
        \cup {[kind |-> "value", value |-> RatInt(v)] :
                 v \in {0, MaxCurrentPrice, -MaxCurrentPrice}}

\* a stock of the fixed list, a stock outside it, a crypto symbol
DetectSymbols == {"QQQ", "AAPL", "BTC"}

DetectPrices == {RatInt(p) : p \in 0..MaxCurrentPrice} \cup {RatInt(45000)}

\* current_prices: at most two of the symbols priced
DetectSnapshots ==
    UNION {[S -> DetectPrices] :
              S \in {T \in SUBSET DetectSymbols : Cardinality(T) <= 2}}

\* variant: the fallback is 1.5 times the current price
get_average_price_half_again(outcome, current_price) ==
    IF outcome.kind = "raises" THEN NoPrice
    ELSE IF outcome.kind = "value" /\ outcome.value.n > 0
         THEN SomePrice(outcome.value)
         ELSE SomePrice(RatMul(current_price, Rat(3, 2)))

\* _get_average_price: the average cost when it is positive, 1.15 times the
\* current price when there is none, None when the lookup raises
get_average_price(outcome, current_price) ==
    IF outcome.kind = "raises" THEN NoPrice
    ELSE IF outcome.kind = "value" /\ outcome.value.n > 0
         THEN SomePrice(outcome.value)
         ELSE SomePrice(RatMul(current_price, Rat(23, 20)))

\* if avg_price and avg_price > 0
price_usable(avg) == avg.some /\ avg.value.n > 0

\* (avg_price - current_price) / avg_price
drop_of(avg_price, current_price) ==
    RatDiv(RatSub(avg_price, current_price), avg_price)

\* the locals of one iteration of the loop over current_prices
evaluate_symbol(outcome, current_price, cfg) ==
    LET avg == get_average_price(outcome, current_price)
    IN  IF price_usable(avg)
        THEN LET drop == drop_of(avg.value, current_price)
                 r == determine_crash_level(drop, cfg.crash_detection)
             IN  [avg_price |-> avg, classified |-> TRUE, drop_percent |-> drop,
                  crash_level |-> r[1], multiplier |-> r[2]]
        ELSE [avg_price |-> avg, classified |-> FALSE,
              drop_percent |-> RatInt(0), crash_level |-> 0,
              multiplier |-> RatInt(1)]

\* variant: every classified symbol gets an entry
emits_every_level(level) == level >= 0

\* if crash_level > 0
emits(level) == level > 0

\* _get_base_allocation
get_base_allocation(symbol, portfolio) ==
    IF symbol \in DOMAIN portfolio.stock_allocation
    THEN RatMul(portfolio.stock_allocation[symbol], portfolio.stock_weight)
    ELSE IF symbol \in DOMAIN portfolio.crypto_allocation
    THEN RatMul(portfolio.crypto_allocation[symbol], portfolio.crypto_weight)
    ELSE RatInt(0)

\* _get_weekly_budget: the USD limit for the three stock symbols, the TAO
\* limit at a fixed price of 500 for every other symbol
get_weekly_budget(symbol, limits) ==
    IF symbol \in Range(StockSymbols)
    THEN limits.weekly_usd_limit
    ELSE RatMul(limits.weekly_tao_limit, RatInt(500))

opportunity(symbol, current_price, ev, cfg) ==
    LET base_amount == RatMul(get_weekly_budget(symbol, cfg.limits),
                              get_base_allocation(symbol, cfg.portfolio))
    IN  [current_price    |-> current_price,
         avg_price        |-> ev.avg_price.value,
         drop_percent     |-> RatMul(ev.drop_percent, RatInt(100)),
         crash_level      |-> ev.crash_level,
         multiplier       |-> ev.multiplier,
         base_amount      |-> base_amount,
         suggested_amount |-> RatMul(base_amount, ev.multiplier)]

\* the locals of every iteration, by symbol
evaluations(current_prices, history, cfg) ==
    [s \in DOMAIN current_prices |->
        evaluate_symbol(history[s], current_prices[s], cfg)]

detect_crash_opportunities(current_prices, history, cfg) ==
    LET ev == evaluations(current_prices, history, cfg)
    IN  [s \in {x \in DOMAIN current_prices :
                   ev[x].classified /\ emits(ev[x].crash_level)} |->
            opportunity(s, current_prices[s], ev[s], cfg)]

\* the one call of a run; the lookup's behaviour is given for every symbol
\* it is asked
detect_crash_opportunities_call ==
    /\ detect_calls = <<>>
    /\ \E current_prices \in DetectSnapshots :
          \E history \in [DOMAIN current_prices -> HistoryOutcomes] :
             detect_calls' =
                 << [current_prices |-> current_prices,
                     history        |-> history,
                     evaluated      |-> evaluations(current_prices, history,
                                                    config),
                     opportunities  |-> detect_crash_opportunities(
                                            current_prices, history,
                                            config)] >>
    /\ UNCHANGED weekly_vars
    /\ UNCHANGED crash_vars
    /\ UNCHANGED <<rebalance_calls, units_calls>>
    /\ UNCHANGED history_vars
    /\ UNCHANGED fetcher_vars

-----------------------------------------------------------------------------
(* calculate_rebalancing_adjustment *)

RatAbs(a) == [n |-> Abs(a.n), d |-> a.d]

RatMax(a, b) == IF RatLT(a, b) THEN b ELSE a

\* adjustments = {}
EmptyDict == [s \in {} |-> RatInt(0)]

\* the keys of current_portfolio in iteration order: the three stock
\* symbols and a symbol no target lists
HoldingSymbols == <<"QQQ", "VOO", "GLDM", "AAPL">>

\* current_portfolio: the value held of any of the stock symbols, or of the
\* symbol outside the targets, alone or next to GLDM
Holdings ==
    UNION {[S -> {RatInt(v) : v \in 0..MaxHolding}] :
               S \in SUBSET Range(StockSymbols)
                      \cup {{"AAPL"}, {"GLDM", "AAPL"}}}

\* sum(current_portfolio.values()) + weekly_budget
total_portfolio_value(current_portfolio, weekly_budget) ==
    RatAdd(SumValues(HoldingSymbols, current_portfolio), weekly_budget)

\* current_portfolio.get(symbol, 0)
current_value(current_portfolio, symbol) ==
    IF symbol \in DOMAIN current_portfolio THEN current_portfolio[symbol]
    ELSE RatInt(0)

\* the divisor of current_ratio: total_portfolio_value - weekly_budget
ratio_divisor(current_portfolio, weekly_budget) ==
    RatSub(total_portfolio_value(current_portfolio, weekly_budget),
           weekly_budget)

\* the division of line 155 is reached for the first target symbol whenever
\* total_portfolio_value > 0, and raises when its divisor is 0
rebalance_raises(current_portfolio, target_allocation, weekly_budget) ==
    /\ DOMAIN target_allocation # {}
    /\ total_portfolio_value(current_portfolio, weekly_budget).n > 0
    /\ ratio_divisor(current_portfolio, weekly_budget).n = 0

\* abs(current_ratio - target_ratio)
deviation(current_portfolio, weekly_budget, symbol, target_ratio) ==
    RatAbs(RatSub(RatDiv(current_value(current_portfolio, symbol),
                         ratio_divisor(current_portfolio, weekly_budget)),
                  target_ratio))

\* variant: any deviation at all triggers the correction
exceeds_tolerance_any(dev) == RatLT(RatInt(0), dev)

\* if deviation > 0.05
exceeds_tolerance(dev) == RatLT(Rat(1, 20), dev)

\* variant: capped at the whole weekly budget
corrective_amount_full_budget(current_portfolio, weekly_budget, symbol, target_ratio) ==
    LET target_value ==
            RatMul(total_portfolio_value(current_portfolio, weekly_budget),
                   target_ratio)
        needed_adjustment ==
            RatSub(target_value, current_value(current_portfolio, symbol))
    IN  RatMin(weekly_budget, RatMax(RatInt(0), needed_adjustment))

\* min(max_adjustment, max(0, needed_adjustment))
corrective_amount(current_portfolio, weekly_budget, symbol, target_ratio) ==
    LET target_value ==
            RatMul(total_portfolio_value(current_portfolio, weekly_budget),
                   target_ratio)
        needed_adjustment ==
            RatSub(target_value, current_value(current_portfolio, symbol))
        max_adjustment == RatMul(weekly_budget, Rat(1, 2))
    IN  RatMin(max_adjustment, RatMax(RatInt(0), needed_adjustment))

\* adjustments after the first loop
corrections(current_portfolio, target_allocation, weekly_budget) ==
    IF total_portfolio_value(current_portfolio, weekly_budget).n > 0
    THEN [s \in {x \in DOMAIN target_allocation :
                    exceeds_tolerance(deviation(current_portfolio,
                                                weekly_budget, x,
                                                target_allocation[x]))} |->
             corrective_amount(current_portfolio, weekly_budget, s,
                               target_allocation[s])]
    ELSE EmptyDict

\* the second half: leftover budget by target ratio on top of the
\* corrections, or the whole budget by target ratio when there are none
distribute(adjustments, target_allocation, weekly_budget) ==
    IF DOMAIN adjustments # {}
    THEN LET remaining_budget ==
                 RatSub(weekly_budget, SumValues(StockSymbols, adjustments))
         IN  IF remaining_budget.n > 0
             THEN [s \in DOMAIN target_allocation |->
                      RatAdd(IF s \in DOMAIN adjustments THEN adjustments[s]
                             ELSE RatInt(0),
                             RatMul(remaining_budget, target_allocation[s]))]
             ELSE adjustments
    ELSE [s \in DOMAIN target_allocation |->
             RatMul(weekly_budget, target_allocation[s])]

calculate_rebalancing_adjustment(current_portfolio, target_allocation, weekly_budget) ==
    LET args == [current_portfolio |-> current_portfolio,
                 target_allocation |-> target_allocation,
                 weekly_budget     |-> weekly_budget]
    IN  IF rebalance_raises(current_portfolio, target_allocation,
                            weekly_budget)
        THEN args @@ [status |-> "raised", error |-> "ZeroDivisionError",
                      corrections |-> EmptyDict, adjustments |-> EmptyDict]
        ELSE LET c == corrections(current_portfolio, target_allocation,
                                  weekly_budget)
             IN  args @@ [status |-> "returned", error |-> None,
                          corrections |-> c,
                          adjustments |-> distribute(c, target_allocation,
                                                     weekly_budget)]

-----------------------------------------------------------------------------
(* calculate_optimal_purchase_units *)

\* variant: nearest integer in place of truncation
int_nearest(x) == RoundHalfEven(x)

\* int(x) of a float: truncation toward zero
int(x) == IF x.n >= 0 THEN x.n \div x.d ELSE -((-x.n) \div x.d)

\* round(x, 6)
round6(x) == Rat(RoundHalfEven(RatMul(x, RatInt(1000000))), 1000000)

\* amount and price in steps of one half
UnitAmounts == {Rat(k, 2) : k \in (-1)..MaxAmountHalves}

UnitPrices == {Rat(k, 2) : k \in 0..MaxPriceHalves}

calculate_optimal_purchase_units(amount, price, asset_type) ==
    LET args == [amount |-> amount, price |-> price,
                 asset_type |-> asset_type]
    IN  IF price.n = 0
        THEN args @@ [status |-> "raised", error |-> "ZeroDivisionError",
                      units |-> RatInt(0), unit_type |-> None,
                      actual_cost |-> RatInt(0), remainder |-> RatInt(0),
                      efficiency |-> RatInt(0)]
        ELSE IF asset_type = "stock"
        THEN LET shares == int(RatDiv(amount, price))
                 actual_cost == RatMul(RatInt(shares), price)
             IN  args @@ [status |-> "returned", error |-> None,
                          units |-> RatInt(shares), unit_type |-> "shares",
                          actual_cost |-> actual_cost,
                          remainder |-> RatSub(amount, actual_cost),
                          efficiency |-> IF amount.n > 0
                                         THEN RatDiv(actual_cost, amount)
                                         ELSE RatInt(0)]
        ELSE args @@ [status |-> "returned", error |-> None,
                      units |-> round6(RatDiv(amount, price)),
                      unit_type |-> "coins",
                      actual_cost |-> amount, remainder |-> RatInt(0),
                      efficiency |-> RatInt(1)]

\* the one call of a run
calculate_optimal_purchase_units_call ==
    /\ units_calls = <<>>
    /\ \E amount \in UnitAmounts, price \in UnitPrices,
          asset_type \in {"stock", "crypto"} :
          units_calls' =
              << calculate_optimal_purchase_units(amount, price,
                                                  asset_type) >>
    /\ UNCHANGED weekly_vars
    /\ UNCHANGED crash_vars
    /\ UNCHANGED <<detect_calls, rebalance_calls>>
    /\ UNCHANGED history_vars
    /\ UNCHANGED fetcher_vars

-----------------------------------------------------------------------------
(* validate_config *)

\* abs(total - 1.0) > 0.01
far_from_one(total) ==
    LET diff == RatSub(total, RatInt(1))
    IN  RatLT(Rat(1, 100), [n |-> Abs(diff.n), d |-> diff.d])

\* the errors validate_config reports for a configuration that has every
\* key: ratio sums and weight sum far from 1.0, limits not above 0
validate_config(cfg) ==
    {e \in {"stock_allocation", "crypto_allocation", "weights",
             "weekly_usd_limit", "weekly_tao_limit"} :
        CASE e = "stock_allocation" ->
                 far_from_one(SumValues(StockSymbols,
                                        cfg.portfolio.stock_allocation))
          [] e = "crypto_allocation" ->
                 far_from_one(SumValues(CryptoSymbols,
                                        cfg.portfolio.crypto_allocation))
          [] e = "weights" ->
                 far_from_one(RatAdd(cfg.portfolio.stock_weight,
                                     cfg.portfolio.crypto_weight))
          [] e = "weekly_usd_limit" -> cfg.limits.weekly_usd_limit.n <= 0
          [] e = "weekly_tao_limit" -> cfg.limits.weekly_tao_limit.n <= 0}

-----------------------------------------------------------------------------
(* HistoryManager.record_investment *)

required_fields == <<"date", "total_invested">>

\* the dicts a caller builds: any of the required fields present or absent,
\* no 'id' yet
CallerDicts ==
    {[keys |-> K, id |-> 0] : K \in SUBSET Range(required_fields)}

\* investment_data['timestamp'] = ...; investment_data['id'] = n
stamped(d, n) == [keys |-> d.keys \cup {"timestamp", "id"}, id |-> n]

\* some field of required_fields is not in investment_data
missing_field(d) ==
    \E i \in 1..Len(required_fields) : required_fields[i] \notin d.keys

\* json.dump of the stored list: the dicts the references point to
dumped(h, refs) == [i \in 1..Len(refs) |-> h[refs[i]]]

\* record_investment(investment_data) with the dict object ref of the heap
\* h; the dict is stamped in place before the fields are looked at, and the
\* list keeps the reference
record_investment(h, ref) ==
    LET n == Len(data_investments) + 1
        marked == [h EXCEPT ![ref] = stamped(h[ref], n)]
        ok == ~missing_field(marked[ref])
        stored == IF ok THEN Append(data_investments, ref)
                        ELSE data_investments
    IN  /\ heap' = marked
        /\ data_investments' = stored
        /\ data_file' = IF ok THEN dumped(marked, stored) ELSE data_file
        /\ record_calls' = Append(record_calls,
                                  [investment_data |-> ref,
                                   keys |-> h[ref].keys,
                                   before |-> data_investments,
                                   id |-> n,
                                   returned |-> ok,
                                   after |-> stored])

\* the caller passes a dict it has just built, or one it has passed before
record_investment_call ==
    /\ Len(record_calls) < MaxRecords
    /\ \/ \E d \in CallerDicts :
             record_investment(Append(heap, d), Len(heap) + 1)
       \/ \E ref \in 1..Len(heap) : record_investment(heap, ref)
    /\ UNCHANGED weekly_vars
    /\ UNCHANGED crash_vars
    /\ UNCHANGED <<detect_calls, rebalance_calls, units_calls>>
    /\ UNCHANGED fetcher_vars

-----------------------------------------------------------------------------
(* PriceFetcher *)

\* self.cache_duration: 3600 seconds, two ticks of the model's clock
cache_duration == 2

CacheKeys == {"stock_prices", "crypto_prices", "tao_price"}

\* symbols of get_stock_prices, symbols of get_crypto_prices after
\* symbol_map, and the sources get_tao_price asks in turn
FetchedStocks == <<"QQQ", "VOO", "GLDM">>
FetchedCryptos == <<"BTC", "BNB", "SOL", "ETH">>
TaoSources == <<"TAOUSDT", "TAOUSD", "TAO_USDT">>

\* live quotes are 1..MaxQuote; the hard-coded mock prices are quote 0
MockQuote == 0
fallback_prices(symbols) == [s \in Range(symbols) |-> MockQuote]
fallback_price == MockQuote

_is_cache_valid(key) ==
    /\ key \in DOMAIN cache_expiry
    /\ now < cache_expiry[key]

\* _set_cache(key, data) at time t
_set_cache(key, data, t) ==
    /\ cache' = (key :> data) @@ cache
    /\ cache_expiry' = (key :> (t + cache_duration)) @@ cache_expiry

cached(c, key) == IF key \in DOMAIN c THEN <<c[key]>> ELSE <<>>

\* the record of a call for key that started at time now; turn tells a
\* call from the one before it
called(key, attempted, returned, cache_after) ==
    <<[key |-> key,
       turn |-> IF fetch_call = <<>> THEN 0 ELSE 1 - fetch_call[1].turn,
       at |-> now,
       expiry |-> cached(cache_expiry, key),
       cached_before |-> cached(cache, key),
       attempted |-> attempted,
       returned |-> returned,
       cached_after |-> cached(cache_after, key)]>>

\* if self._is_cache_valid(cache_key): return self.cache[cache_key]
serve_cached(key) ==
    /\ _is_cache_valid(key)
    /\ fetch_call' = called(key, FALSE, cache[key], cache)
    /\ fell_back' = [fell_back EXCEPT ![key] = FALSE]
    /\ UNCHANGED <<cache, cache_expiry, now>>

\* return prices after self._set_cache(cache_key, prices), at time t
return_live(key, data, t) ==
    /\ _set_cache(key, data, t)
    /\ now' = t
    /\ fetch_call' = called(key, TRUE, data, (key :> data) @@ cache)
    /\ fell_back' = [fell_back EXCEPT ![key] = FALSE]

\* return fallback_prices, at time t
return_fallback(key, mock, t) ==
    /\ now' = t
    /\ fetch_call' = called(key, TRUE, mock, cache)
    /\ fell_back' = [fell_back EXCEPT ![key] = TRUE]
    /\ UNCHANGED <<cache, cache_expiry>>

complete_always(prices, symbols) == TRUE
\* len(prices) == len(symbols)
complete(prices, symbols) == Cardinality(DOMAIN prices) = Len(symbols)

\* what the requests of one call bring back: every symbol priced, at any
\* quote, or one symbol missing, or none priced
Answers(symbols) ==
    {[s \in Range(symbols) |-> q] : q \in 1..MaxQuote}
        \cup {[s \in Range(symbols) \ {m} |-> 1] : m \in Range(symbols)}
        \cup {[s \in {} |-> 1]}

\* get_stock_prices and get_crypto_prices: every symbol is asked for, prices
\* holds the ones that answered, and the requests take elapsed ticks
get_prices(key, symbols) ==
    \/ serve_cached(key)
    \/ /\ ~_is_cache_valid(key)
       /\ \E prices \in Answers(symbols), elapsed \in 0..1 :
             LET t == now + elapsed
             IN  /\ t <= MaxTime
                 /\ IF complete(prices, symbols)
                       THEN return_live(key, prices, t)
                       ELSE return_fallback(key, fallback_prices(symbols), t)

\* what the sources of get_tao_price answer, 0 for a failed request: the
\* sources before some source fail, or all of them do
TaoAnswers ==
    {[i \in 1..Len(TaoSources) |-> IF i >= first THEN q ELSE 0] :
        first \in 1..(Len(TaoSources) + 1), q \in 1..MaxQuote}

\* the first source of TaoSources that answers; 0 when none does
first_answer(answers) ==
    IF \A i \in 1..Len(answers) : answers[i] = 0 THEN 0
    ELSE answers[CHOOSE i \in 1..Len(answers) :
                     /\ answers[i] # 0
                     /\ \A j \in 1..(i - 1) : answers[j] = 0]

get_tao_price ==
    \/ serve_cached("tao_price")
    \/ /\ ~_is_cache_valid("tao_price")
       /\ \E answers \in TaoAnswers, elapsed \in 0..1 :
             LET price == first_answer(answers)
                 t == now + elapsed
             IN  /\ t <= MaxTime
                 /\ IF price # 0
                       THEN return_live("tao_price", price, t)
                       ELSE return_fallback("tao_price", fallback_price, t)

fetcher_frame ==
    /\ UNCHANGED weekly_vars
    /\ UNCHANGED crash_vars
    /\ UNCHANGED <<detect_calls, rebalance_calls, units_calls>>
    /\ UNCHANGED history_vars

get_stock_prices_call ==
    /\ get_prices("stock_prices", FetchedStocks)
    /\ fetcher_frame

get_crypto_prices_call ==
    /\ get_prices("crypto_prices", FetchedCryptos)
    /\ fetcher_frame

get_tao_price_call ==
    /\ get_tao_price
    /\ fetcher_frame

\* time passes between two calls
tick ==
    /\ now < MaxTime
    /\ now' = now + 1
    /\ UNCHANGED <<cache, cache_expiry, fetch_call, fell_back>>
    /\ fetcher_frame

-----------------------------------------------------------------------------
(* Inputs *)

ExampleAllocation ==
    [s \in {"QQQ", "VOO", "GLDM"} |->
        CASE s = "QQQ" -> Rat(1, 2) [] s = "VOO" -> Rat(3, 10)
          [] OTHER -> Rat(1, 5)]

\* the example's ratios, two symbols only, and ratios that do not sum to 1
StockAllocations ==
    { ExampleAllocation,
      [s \in {"QQQ", "VOO"} |-> Rat(1, 2)],
      [s \in {"QQQ", "VOO", "GLDM"} |->
          IF s = "QQQ" THEN Rat(3, 5) ELSE Rat(3, 10)] }

ExamplePrices ==
    [s \in {"QQQ", "VOO", "GLDM"} |->
        CASE s = "QQQ" -> RatInt(350) [] s = "VOO" -> RatInt(420)
          [] OTHER -> RatInt(36)]

\* every price dict over the stock symbols with prices 0..MaxPrice
StockSnapshots ==
    UNION { [S -> {RatInt(p) : p \in 0..MaxPrice}] :
            S \in SUBSET Range(StockSymbols) }

CryptoAllocation == [s \in {"BTC", "ETH"} |-> Rat(1, 2)]

CryptoSnapshots ==
    { [s \in {"BTC", "ETH"} |-> IF s = "BTC" THEN RatInt(3) ELSE RatInt(2)],
      [s \in {"BTC"} |-> RatInt(3)],
      [s \in {"BTC", "ETH"} |-> IF s = "BTC" THEN RatInt(3) ELSE RatInt(0)] }

CrashConfig(l1, l2, l3, m) ==
    [level1_threshold |-> l1, level1_multiplier |-> m[1],
     level2_threshold |-> l2, level2_multiplier |-> m[2],
     level3_threshold |-> l3, level3_multiplier |-> m[3]]

ExampleMultipliers == <<Rat(3, 2), RatInt(2), RatInt(3)>>

Multipliers == {ExampleMultipliers, <<RatInt(2), RatInt(3), RatInt(5)>>}

ExampleCrashConfig ==
    CrashConfig(Rat(1, 10), Rat(1, 5), Rat(3, 10), ExampleMultipliers)

Thresholds == {Rat(k, 10) : k \in 0..MaxThresholdTenths}

Config(usd, tao, salloc, crash) ==
    [portfolio |-> [stock_weight      |-> Rat(3, 5),
                    crypto_weight     |-> Rat(2, 5),
                    stock_allocation  |-> salloc,
                    crypto_allocation |-> CryptoAllocation],
     limits |-> [weekly_usd_limit |-> usd, weekly_tao_limit |-> tao],
     crash_detection |-> crash]

WeeklyIdle ==
    /\ pc = "idle"
    /\ investments = <<>>
    /\ total_cost = RatInt(0)
    /\ first_pass = <<>>
    /\ decrements = 0
    /\ results = <<>>

CrashIdle == crash_calls = <<>>

\* an empty history and a PriceFetcher right after __init__
HistoryIdle ==
    /\ heap = <<>>
    /\ data_investments = <<>>
    /\ data_file = <<>>
    /\ record_calls = <<>>

FetcherIdle ==
    /\ cache = EmptyDict
    /\ cache_expiry = EmptyDict
    /\ now = 0
    /\ fetch_call = <<>>
    /\ fell_back = [key \in CacheKeys |-> FALSE]

ToolsIdle ==
    /\ detect_calls = <<>>
    /\ rebalance_calls = <<>>
    /\ units_calls = <<>>
    /\ HistoryIdle
    /\ FetcherIdle

\* the stock side of the inputs: small budgets over every small snapshot,
\* and the documented example
StockInputs(tao) ==
    \/ \E usd \in 1..MaxBudget, salloc \in StockAllocations :
          /\ config = Config(RatInt(usd), RatInt(tao), salloc,
                             ExampleCrashConfig)
          /\ stock_prices \in StockSnapshots
    \/ /\ config = Config(RatInt(2000), RatInt(tao), ExampleAllocation,
                          ExampleCrashConfig)
       /\ stock_prices = ExamplePrices

GivenInputs ==
    given = [config |-> config, stock_prices |-> stock_prices,
             crypto_prices |-> crypto_prices, tao_price |-> tao_price]

\* one call of calculate_weekly_investment on every input of the bounds
Init ==
    /\ \E tao \in 1..MaxTaoLimit : StockInputs(tao)
    /\ crypto_prices \in CryptoSnapshots
    /\ tao_price \in {RatInt(p) : p \in 0..MaxTaoPrice}
    /\ GivenInputs
    /\ calls_left = 1
    /\ WeeklyIdle
    /\ CrashIdle
    /\ ToolsIdle

Next ==
    \/ calculate_weekly_investment_call
    \/ correction_decrement
    \/ correction_exit
    \/ calculate_weekly_investment_return

Spec == Init /\ [][Next]_vars

\* MaxCalls calls in a row on one calculator with the same input objects
InitRepeat ==
    /\ StockInputs(1)
    /\ crypto_prices \in CryptoSnapshots
    /\ tao_price = RatInt(MaxTaoPrice)
    /\ GivenInputs
    /\ calls_left = MaxCalls
    /\ WeeklyIdle
    /\ CrashIdle
    /\ ToolsIdle

SpecRepeat == InitRepeat /\ [][Next]_vars

\* one call on every stock input with positive prices; the code is
\* sequential, so a step of the loop that can be taken is eventually taken
InitLoop ==
    /\ StockInputs(1)
    /\ \A sym \in DOMAIN stock_prices : stock_prices[sym].n > 0
    /\ crypto_prices = [s \in {"BTC"} |-> RatInt(3)]
    /\ tao_price = RatInt(MaxTaoPrice)
    /\ GivenInputs
    /\ calls_left = 1
    /\ WeeklyIdle
    /\ CrashIdle
    /\ ToolsIdle

\* the test of the while loop and what follows it
correction_step == correction_decrement \/ correction_exit

SpecLoop == InitLoop /\ [][Next]_vars /\ WF_vars(correction_step)

\* _determine_crash_level on its own, over every threshold configuration
InitCrash ==
    /\ \E l1 \in Thresholds, l2 \in Thresholds, l3 \in Thresholds,
          m \in Multipliers :
          config = Config(RatInt(2000), RatInt(1), ExampleAllocation,
                          CrashConfig(l1, l2, l3, m))
    /\ stock_prices = ExamplePrices
    /\ crypto_prices = [s \in {"BTC"} |-> RatInt(3)]
    /\ tao_price = RatInt(1)
    /\ GivenInputs
    /\ calls_left = 0
    /\ WeeklyIdle
    /\ CrashIdle
    /\ ToolsIdle

NextCrash == determine_crash_level_call

SpecCrash == InitCrash /\ [][NextCrash]_vars

AlternativeCrashConfig ==
    CrashConfig(Rat(1, 5), Rat(2, 5), Rat(3, 5),
                <<RatInt(2), RatInt(3), RatInt(5)>>)

\* a stock_allocation that lists a symbol outside QQQ, VOO, GLDM
OtherStockAllocation == [s \in {"QQQ", "AAPL"} |-> Rat(1, 2)]

\* detect_crash_opportunities on its own; tao_price is the conversion price
\* of the same calculation cycle
InitDetect ==
    /\ \E tao \in 1..MaxTaoLimit,
          crash \in {ExampleCrashConfig, AlternativeCrashConfig},
          salloc \in {ExampleAllocation, OtherStockAllocation} :
          config = Config(RatInt(2000), RatInt(tao), salloc, crash)
    /\ stock_prices = ExamplePrices
    /\ crypto_prices = [s \in {"BTC"} |-> RatInt(3)]
    /\ tao_price \in {RatInt(p) : p \in 1..MaxTaoPrice} \cup {RatInt(500)}
    /\ GivenInputs
    /\ calls_left = 0
    /\ WeeklyIdle
    /\ CrashIdle
    /\ ToolsIdle

NextDetect == detect_crash_opportunities_call

SpecDetect == InitDetect /\ [][NextDetect]_vars

\* stock_weight and crypto_weight: the example's, all weight on crypto, and
\* weights that do not sum to 1
Weights ==
    { <<Rat(3, 5), Rat(2, 5)>>, <<RatInt(0), RatInt(1)>>,
      <<Rat(1, 2), Rat(1, 4)>> }

\* one call of calculate_weekly_investment on configurations validate_config
\* accepts and on configurations it rejects, every price strictly positive
InitValidated ==
    /\ \E usd \in 0..MaxBudget, tao \in 0..1, salloc \in StockAllocations,
          w \in Weights :
          config = [Config(RatInt(usd), RatInt(tao), salloc,
                           ExampleCrashConfig)
                       EXCEPT !.portfolio.stock_weight = w[1],
                              !.portfolio.crypto_weight = w[2]]
    /\ stock_prices \in [Range(StockSymbols) -> {RatInt(p) : p \in 1..MaxPrice}]
    /\ crypto_prices =
           [s \in {"BTC", "ETH"} |-> IF s = "BTC" THEN RatInt(3) ELSE RatInt(2)]
    /\ tao_price = RatInt(1)
    /\ GivenInputs
    /\ calls_left = 1
    /\ WeeklyIdle
    /\ CrashIdle
    /\ ToolsIdle

SpecValidated == InitValidated /\ [][Next]_vars

\* the configuration of the self-test; the tools below take everything they
\* use as arguments
InitTools ==
    /\ config = Config(RatInt(2000), RatInt(1), ExampleAllocation,
                       ExampleCrashConfig)
    /\ stock_prices = ExamplePrices
    /\ crypto_prices = [s \in {"BTC"} |-> RatInt(3)]
    /\ tao_price = RatInt(500)
    /\ GivenInputs
    /\ calls_left = 0
    /\ WeeklyIdle
    /\ CrashIdle
    /\ ToolsIdle

\* target_allocation
RebalanceTargets == {ExampleAllocation, [s \in {"QQQ", "VOO"} |-> Rat(1, 2)]}

\* the one call of a run
calculate_rebalancing_adjustment_call ==
    /\ rebalance_calls = <<>>
    /\ \E current_portfolio \in Holdings,
          target_allocation \in RebalanceTargets,
          weekly_budget \in 0..MaxRebalanceBudget :
          rebalance_calls' =
              << calculate_rebalancing_adjustment(current_portfolio,
                                                  target_allocation,
                                                  RatInt(weekly_budget)) >>
    /\ UNCHANGED weekly_vars
    /\ UNCHANGED crash_vars
    /\ UNCHANGED <<detect_calls, units_calls>>
    /\ UNCHANGED history_vars
    /\ UNCHANGED fetcher_vars

NextRebalance == calculate_rebalancing_adjustment_call

SpecRebalance == InitTools /\ [][NextRebalance]_vars

NextUnits == calculate_optimal_purchase_units_call

SpecUnits == InitTools /\ [][NextUnits]_vars

\* an empty history; the calculator is not involved
NextHistory == record_investment_call

SpecHistory == InitTools /\ [][NextHistory]_vars

\* a PriceFetcher right after __init__; the calculator is not involved
NextFetcher ==
    \/ get_stock_prices_call
    \/ get_crypto_prices_call
    \/ get_tao_price_call
    \/ tick

SpecFetcher == InitTools /\ [][NextFetcher]_vars

-----------------------------------------------------------------------------
(* Properties of calculate_weekly_investment *)

\* the calls that returned a plan
ReturnedCalls == {i \in 1..Len(results) : results[i].status = "returned"}

\* the configuration and the snapshot meet the stated preconditions:
\* ratios and weights sum to 1, limits positive, every configured symbol
\* priced, every price positive
ValidInputs ==
    /\ SumValues(StockSymbols, config.portfolio.stock_allocation) = RatInt(1)
    /\ SumValues(CryptoSymbols, config.portfolio.crypto_allocation) = RatInt(1)
    /\ RatAdd(config.portfolio.stock_weight, config.portfolio.crypto_weight)
           = RatInt(1)
    /\ config.limits.weekly_usd_limit.n > 0
    /\ config.limits.weekly_tao_limit.n > 0
    /\ DOMAIN config.portfolio.stock_allocation \subseteq DOMAIN stock_prices
    /\ DOMAIN config.portfolio.crypto_allocation \subseteq DOMAIN crypto_prices
    /\ \A s \in DOMAIN stock_prices : stock_prices[s].n > 0
    /\ \A s \in DOMAIN crypto_prices : crypto_prices[s].n > 0
    /\ tao_price.n > 0

\* weekly_usd_limit * 1.5
OneAndAHalfBudget == RatMul(config.limits.weekly_usd_limit, Rat(3, 2))

AllSingleUnit(lines) == \A s \in DOMAIN lines : lines[s].shares = 1

\* C1 as stated: for valid inputs with positive prices the equity total of
\* every returned plan is at most 1.5 times weekly_usd_limit.
C1_Original ==
    ValidInputs =>
        \A i \in ReturnedCalls :
            RatLE(results[i].plan.stock_total, OneAndAHalfBudget)

\* C1 amended: the equity total of every returned plan is at most 1.5 times
\* weekly_usd_limit, unless every equity line is down to a single unit.
C1_Amended ==
    \A i \in ReturnedCalls :
        \/ RatLE(results[i].plan.stock_total, OneAndAHalfBudget)
        \/ AllSingleUnit(results[i].plan.stocks)

\* valid inputs, the rounding pass overshot, the loop brought the total back
C1_Witness ==
    /\ ValidInputs
    /\ ReturnedCalls # {}
    /\ decrements >= 1
    /\ RatLT(OneAndAHalfBudget, SumAmounts(StockSymbols, first_pass))
    /\ \A i \in ReturnedCalls :
           /\ RatLE(results[i].plan.stock_total, OneAndAHalfBudget)
           /\ ~AllSingleUnit(results[i].plan.stocks)

\* C2: every equity line holds an integer unit count of at least 1, right
\* after the rounding pass, after every decrement and in the returned plan.
C2_UnitsAtLeastOne ==
    /\ \A s \in DOMAIN investments :
           investments[s].shares \in Int /\ investments[s].shares >= 1
    /\ \A s \in DOMAIN first_pass :
           first_pass[s].shares \in Int /\ first_pass[s].shares >= 1
    /\ \A i \in ReturnedCalls : \A s \in DOMAIN results[i].plan.stocks :
           results[i].plan.stocks[s].shares >= 1

\* the loop reduced a line to one unit and had to stop over budget
C2_Witness ==
    /\ pc = "stock_done"
    /\ decrements >= 1
    /\ \E s \in DOMAIN investments :
           investments[s].shares = 1 /\ first_pass[s].shares > 1
    /\ RatLT(OneAndAHalfBudget, total_cost)

\* C3: with a positive conversion price, crypto_total never exceeds
\* weekly_tao_limit * conversion price, and crypto_tao_amount never exceeds
\* weekly_tao_limit.
C3_TaoCap ==
    tao_price.n > 0 =>
        \A i \in ReturnedCalls :
            /\ RatLE(results[i].plan.crypto_total,
                     RatMul(config.limits.weekly_tao_limit, tao_price))
            /\ RatLE(results[i].plan.crypto_tao_amount,
                     config.limits.weekly_tao_limit)

\* the proportional crypto budget is above the cap, the plan sits on the cap
C3_Witness ==
    \E i \in ReturnedCalls :
        /\ RatLT(RatMul(config.limits.weekly_tao_limit, tao_price),
                 RatMul(results[i].plan.stock_total, Rat(2, 3)))
        /\ results[i].plan.crypto_tao_amount = config.limits.weekly_tao_limit

\* the crypto budget in proportion to the equity lines actually produced
ProportionalCrypto(plan) ==
    RatMul(SumAmounts(StockSymbols, plan.stocks),
           RatDiv(config.portfolio.crypto_weight,
                  config.portfolio.stock_weight))

\* C4: whenever the equity cost times crypto_weight / stock_weight is below
\* the TAO cap, crypto_total equals exactly that value, the equity cost being
\* the sum of the lines produced and not the nominal weekly_usd_limit.
C4_Proportional ==
    \A i \in ReturnedCalls :
        RatLT(ProportionalCrypto(results[i].plan),
              RatMul(config.limits.weekly_tao_limit, tao_price))
            => results[i].plan.crypto_total
                   = ProportionalCrypto(results[i].plan)

\* below the cap, with an equity cost that differs from the nominal budget
C4_Witness ==
    \E i \in ReturnedCalls :
        /\ RatLT(ProportionalCrypto(results[i].plan),
                 RatMul(config.limits.weekly_tao_limit, tao_price))
        /\ results[i].plan.stock_total # config.limits.weekly_usd_limit
        /\ results[i].plan.stock_total.n > 0
        /\ decrements >= 1

\* C5: two calls on the same calculator with the same inputs give the same
\* outcome, and no call changes the configuration or the price maps.
C5_Deterministic ==
    /\ config = given.config
    /\ stock_prices = given.stock_prices
    /\ crypto_prices = given.crypto_prices
    /\ tao_price = given.tao_price
    /\ \A i \in 1..Len(results), j \in 1..Len(results) :
           results[i] = results[j]

\* two finished calls that both returned a plan after a correction
C5_Witness ==
    /\ Len(results) >= 2
    /\ {1, 2} \subseteq ReturnedCalls
    /\ decrements >= 1
    /\ DOMAIN results[2].plan.cryptos # {}

\* C7 as stated: when a configured symbol has no price, no plan is returned.
C7_MissingPriceAborts ==
    (\/ ~(DOMAIN config.portfolio.stock_allocation \subseteq DOMAIN stock_prices)
     \/ ~(DOMAIN config.portfolio.crypto_allocation
              \subseteq DOMAIN crypto_prices))
        => ReturnedCalls = {}

\* C8: in every equity line amount = shares * price exactly, after the
\* rounding pass, after every decrement and in the returned plan.
LineExact(line) ==
    line.amount = Rat(line.shares * line.price.n, line.price.d)

C8_AmountExact ==
    /\ \A s \in DOMAIN investments : LineExact(investments[s])
    /\ \A i \in ReturnedCalls : \A s \in DOMAIN results[i].plan.stocks :
           LineExact(results[i].plan.stocks[s])

\* a returned plan with a line the loop decremented
C8_Witness ==
    \E i \in ReturnedCalls : \E s \in DOMAIN results[i].plan.stocks :
        /\ results[i].plan.stocks[s].shares < first_pass[s].shares
        /\ results[i].plan.stocks[s].shares > 1

\* max(1, round(budget * ratio / ratioSum / price)), ratioSum being the sum
\* of the configured ratios
ExpectedUnits(s) ==
    LET x == RatDiv(RatDiv(RatMul(config.limits.weekly_usd_limit,
                                  config.portfolio.stock_allocation[s]),
                           SumValues(StockSymbols,
                                     config.portfolio.stock_allocation)),
                    stock_prices[s])
        q == x.n \div x.d
        r == x.n % x.d
        nearest == IF 2 * r < x.d \/ (2 * r = x.d /\ q % 2 = 0)
                   THEN q ELSE q + 1
    IN  IF nearest < 1 THEN 1 ELSE nearest

IsExampleInput ==
    /\ config.limits.weekly_usd_limit = RatInt(2000)
    /\ config.portfolio.stock_allocation = ExampleAllocation
    /\ stock_prices = ExamplePrices

-----------------------------------------------------------------------------
(* Properties of _determine_crash_level *)

OrderedThresholds ==
    /\ RatLE(config.crash_detection.level1_threshold,
             config.crash_detection.level2_threshold)
    /\ RatLE(config.crash_detection.level2_threshold,
             config.crash_detection.level3_threshold)

\* C6: with level1 <= level2 <= level3 thresholds, a larger drop never gets
\* a lower tier than a smaller drop.
C6_Monotonic ==
    OrderedThresholds =>
        \A i \in 1..Len(crash_calls), j \in 1..Len(crash_calls) :
            RatLE(crash_calls[i].drop_percent, crash_calls[j].drop_percent)
                => crash_calls[i].level <= crash_calls[j].level

\* a smaller drop classified strictly below a larger one
C6_Witness ==
    /\ OrderedThresholds
    /\ Len(crash_calls) = 2
    /\ RatLT(crash_calls[1].drop_percent, crash_calls[2].drop_percent)
    /\ crash_calls[1].level = 1
    /\ crash_calls[2].level = 3

ThresholdOf(k) ==
    CASE k = 1 -> config.crash_detection.level1_threshold
      [] k = 2 -> config.crash_detection.level2_threshold
      [] k = 3 -> config.crash_detection.level3_threshold

MultiplierOf(k) ==
    CASE k = 0 -> RatInt(1)
      [] k = 1 -> config.crash_detection.level1_multiplier
      [] k = 2 -> config.crash_detection.level2_multiplier
      [] k = 3 -> config.crash_detection.level3_multiplier

\* the deepest tier whose threshold the drop reaches, 0 when there is none
DeepestTier(drop) ==
    LET reached == {k \in 1..3 : RatLE(ThresholdOf(k), drop)}
    IN  IF reached = {} THEN 0
        ELSE CHOOSE k \in reached : \A m \in reached : m <= k

\* C10: the result is the deepest tier whose threshold the drop reaches with
\* that tier's multiplier, tier 0 with multiplier 1.0 when it reaches none;
\* drop 0.21 under thresholds 0.10 / 0.20 / 0.30 and multipliers
\* 1.5 / 2.0 / 3.0 is tier 2 with multiplier 2.0.
C10_DeepestTier ==
    \A i \in 1..Len(crash_calls) :
        /\ crash_calls[i].level = DeepestTier(crash_calls[i].drop_percent)
        /\ crash_calls[i].multiplier = MultiplierOf(crash_calls[i].level)
        /\ (/\ config.crash_detection = ExampleCrashConfig
            /\ crash_calls[i].drop_percent = Rat(21, 100))
               => /\ crash_calls[i].level = 2
                  /\ crash_calls[i].multiplier = RatInt(2)

\* the example drop has been classified under the example thresholds
C10_Witness ==
    /\ config.crash_detection = ExampleCrashConfig
    /\ \E i \in 1..Len(crash_calls) :
           /\ crash_calls[i].drop_percent = Rat(21, 100)
           /\ crash_calls[i].level = 2

-----------------------------------------------------------------------------
(* Claims about detect_crash_opportunities *)

\* the history lookup's answer "no data"
NoHistory == [kind |-> "none", value |-> RatInt(0)]

\* currentPrice * 1.15
SyntheticPeak(current_price) == Rat(current_price.n * 23, current_price.d * 20)

\* C11: when the history lookup raises for a symbol, the symbol is still
\* evaluated with the synthetic peak 1.15 * currentPrice and gets exactly the
\* entry (or the absence of one) it would get with no history at all.
C11_LookupFailureFallsBack ==
    \A i \in 1..Len(detect_calls) :
        LET call == detect_calls[i]
        IN  \A s \in DOMAIN call.current_prices :
                call.history[s].kind = "raises" =>
                    LET as_none == detect_crash_opportunities(
                                       call.current_prices,
                                       [call.history EXCEPT ![s] = NoHistory],
                                       config)
                    IN  /\ call.evaluated[s].avg_price =
                               SomePrice(SyntheticPeak(call.current_prices[s]))
                        /\ (s \in DOMAIN call.opportunities)
                               <=> (s \in DOMAIN as_none)
                        /\ s \in DOMAIN as_none =>
                               call.opportunities[s] = as_none[s]

\* the history lookup returned None or a non-positive average
NoUsableHistory(outcome) ==
    \/ outcome.kind = "none"
    \/ outcome.kind = "value" /\ outcome.value.n <= 0

\* C12: for a symbol whose history lookup returns None or a non-positive
\* average, the reference price is 1.15 * currentPrice, and for every
\* positive currentPrice the drop is 0.15 / 1.15 = 3/23; currentPrice 45000
\* gives the reference price 51750.
C12_SyntheticPeak ==
    \A i \in 1..Len(detect_calls) :
        LET call == detect_calls[i]
        IN  \A s \in DOMAIN call.current_prices :
                NoUsableHistory(call.history[s]) =>
                    LET cur == call.current_prices[s]
                        ev == call.evaluated[s]
                    IN  /\ ev.avg_price = SomePrice(SyntheticPeak(cur))
                        /\ cur.n > 0 => /\ ev.classified
                                        /\ ev.drop_percent = Rat(3, 23)
                        /\ cur = RatInt(45000) =>
                               ev.avg_price.value = RatInt(51750)

\* one call priced a symbol without history at 45000 and another symbol with
\* a non-positive average cost at a positive price
C12_Witness ==
    \E i \in 1..Len(detect_calls) :
        LET call == detect_calls[i]
        IN  \E s, t \in DOMAIN call.current_prices :
                /\ call.history[s].kind = "none"
                /\ call.current_prices[s] = RatInt(45000)
                /\ call.evaluated[s].avg_price.value = RatInt(51750)
                /\ call.history[t].kind = "value"
                /\ call.history[t].value.n <= 0
                /\ call.current_prices[t].n > 0
                /\ call.evaluated[t].drop_percent = Rat(3, 23)

\* C13: for a crypto symbol the base amount of an entry is computed from
\* weekly_tao_limit times the conversion price of the same cycle, the USD
\* value calculate_weekly_investment gives the TAO limit.
C13_SameConversionPrice ==
    \A i \in 1..Len(detect_calls) :
        LET call == detect_calls[i]
        IN  \A s \in DOMAIN call.opportunities :
                s \in DOMAIN config.portfolio.crypto_allocation =>
                    call.opportunities[s].base_amount =
                        RatMul(tao_usd_value(config.limits, tao_price),
                               get_base_allocation(s, config.portfolio))

\* C19: the result has an entry for a symbol exactly when the symbol is in
\* currentPrices, its reference price is positive and its tier is above 0;
\* every entry's crash_level is 1, 2 or 3.
C19_EntriesAreCrashes ==
    \A i \in 1..Len(detect_calls) :
        LET call == detect_calls[i]
            crashed(s) ==
                /\ call.evaluated[s].avg_price.some
                /\ call.evaluated[s].avg_price.value.n > 0
                /\ DeepestTier(call.evaluated[s].drop_percent) > 0
        IN  /\ DOMAIN call.opportunities =
                   {s \in DOMAIN call.current_prices : crashed(s)}
            /\ \A s \in DOMAIN call.opportunities :
                   /\ call.opportunities[s].crash_level \in {1, 2, 3}
                   /\ call.opportunities[s].crash_level =
                          DeepestTier(call.evaluated[s].drop_percent)

\* one call left a tier-0 symbol out and gave another symbol an entry
C19_Witness ==
    \E i \in 1..Len(detect_calls) :
        LET call == detect_calls[i]
        IN  \E s, t \in DOMAIN call.current_prices :
                /\ s \in DOMAIN call.opportunities
                /\ call.opportunities[s].crash_level = 2
                /\ call.evaluated[t].classified
                /\ call.evaluated[t].crash_level = 0
                /\ t \notin DOMAIN call.opportunities

-----------------------------------------------------------------------------
(* Claims about calculate_rebalancing_adjustment *)

\* currentTotal: the holdings without the new budget
CurrentTotal(call) == SumValues(HoldingSymbols, call.current_portfolio)

\* weeklyBudget * targetRatio for every symbol of targetRatios
PlainDistribution(call) ==
    [s \in DOMAIN call.target_allocation |->
        RatMul(call.weekly_budget, call.target_allocation[s])]

\* C14: with a holdings total of 0 and a positive weekly budget the call
\* does not fail and returns exactly weeklyBudget * targetRatio for every
\* symbol of targetRatios.
C14_ZeroHoldingsPlain ==
    \A i \in 1..Len(rebalance_calls) :
        LET call == rebalance_calls[i]
        IN  (CurrentTotal(call).n = 0 /\ call.weekly_budget.n > 0) =>
                /\ call.status = "returned"
                /\ call.adjustments = PlainDistribution(call)

\* |currentRatio - targetRatio| with currentRatio = currentValue / currentTotal
OffTarget(call, s) ==
    LET held == IF s \in DOMAIN call.current_portfolio
                THEN call.current_portfolio[s] ELSE RatInt(0)
    IN  RatAbs(RatSub(RatDiv(held, CurrentTotal(call)),
                      call.target_allocation[s]))

\* (currentTotal + weeklyBudget) * targetRatio - currentValue
Shortfall(call, s) ==
    LET held == IF s \in DOMAIN call.current_portfolio
                THEN call.current_portfolio[s] ELSE RatInt(0)
    IN  RatSub(RatMul(RatAdd(CurrentTotal(call), call.weekly_budget),
                      call.target_allocation[s]),
               held)

Clamp(x, lo, hi) == IF RatLT(x, lo) THEN lo ELSE IF RatLT(hi, x) THEN hi ELSE x

HalfBudget(call) == Rat(call.weekly_budget.n, 2 * call.weekly_budget.d)

\* C15: every symbol that is more than 0.05 off its target ratio gets the
\* corrective amount clamp(targetValue - currentValue, 0, weeklyBudget / 2),
\* which is never negative and never above half the weekly budget.
C15_CorrectiveClamp ==
    \A i \in 1..Len(rebalance_calls) :
        LET call == rebalance_calls[i]
        IN  CurrentTotal(call).n > 0 =>
                \A s \in DOMAIN call.target_allocation :
                    RatLT(Rat(1, 20), OffTarget(call, s)) =>
                        /\ call.status = "returned"
                        /\ s \in DOMAIN call.corrections
                        /\ call.corrections[s] =
                               Clamp(Shortfall(call, s), RatInt(0),
                                     HalfBudget(call))
                        /\ call.corrections[s].n >= 0
                        /\ RatLE(call.corrections[s], HalfBudget(call))

\* one call capped a correction at half the budget, floored another at 0
\* and gave a third its whole shortfall
C15_Witness ==
    \E i \in 1..Len(rebalance_calls) :
        LET call == rebalance_calls[i]
        IN  /\ call.weekly_budget.n > 0
            /\ CurrentTotal(call).n > 0
            /\ \E s, t, u \in DOMAIN call.corrections :
                   /\ RatLT(HalfBudget(call), Shortfall(call, s))
                   /\ call.corrections[s] = HalfBudget(call)
                   /\ Shortfall(call, t).n < 0
                   /\ call.corrections[t] = RatInt(0)
                   /\ Shortfall(call, u).n > 0
                   /\ RatLT(Shortfall(call, u), HalfBudget(call))
                   /\ call.corrections[u] = Shortfall(call, u)

-----------------------------------------------------------------------------
(* Claims about calculate_optimal_purchase_units *)

\* C17: for the integer-unit class with amount >= 0 and price > 0 the call
\* returns units = floor(amount / price), actual_cost = units * price and
\* remainder = amount - actual_cost with 0 <= remainder < price; efficiency
\* is actual_cost / amount, 0 when amount is 0; actual_cost + remainder is the
\* amount and actual_cost never exceeds it.
C17_WholeUnits ==
    \A i \in 1..Len(units_calls) :
        LET call == units_calls[i]
        IN  (/\ call.asset_type = "stock"
             /\ call.amount.n >= 0
             /\ call.price.n > 0) =>
                /\ call.status = "returned"
                /\ call.units.d = 1
                /\ call.units.n >= 0
                /\ RatLE(RatMul(call.units, call.price), call.amount)
                /\ RatLT(call.amount,
                         RatMul(RatInt(call.units.n + 1), call.price))
                /\ call.actual_cost = RatMul(call.units, call.price)
                /\ call.remainder = RatSub(call.amount, call.actual_cost)
                /\ call.remainder.n >= 0
                /\ RatLT(call.remainder, call.price)
                /\ call.efficiency =
                       IF call.amount.n = 0 THEN RatInt(0)
                       ELSE Rat(call.actual_cost.n * call.amount.d,
                                call.actual_cost.d * call.amount.n)
                /\ RatAdd(call.actual_cost, call.remainder) = call.amount
                /\ RatLE(call.actual_cost, call.amount)

\* a stock call bought whole units and left a remainder of more than half
\* the price
C17_Witness ==
    \E i \in 1..Len(units_calls) :
        LET call == units_calls[i]
        IN  /\ call.asset_type = "stock"
            /\ call.status = "returned"
            /\ call.units.n >= 1
            /\ call.remainder.n > 0
            /\ RatLT(call.price, RatMul(RatInt(2), call.remainder))

-----------------------------------------------------------------------------
(* Claims about precondition checks *)

\* C18: a non-positive price or budget is rejected by a precondition check at
\* the point of use, so no call of calculate_weekly_investment ends in a
\* division by zero.
C18_NoDivisionByZero ==
    \A i \in 1..Len(results) : results[i].error # "ZeroDivisionError"

-----------------------------------------------------------------------------
(* Claims about the correction loop *)

\* the total unit count of the plan
TotalUnits(inv) ==
    SumSeq(Items(StockSymbols, inv),
           [s \in DOMAIN inv |-> RatInt(inv[s].shares)]).n

\* total cost <= 1.5 * budget
WithinOneAndAHalf ==
    RatLE(SumAmounts(StockSymbols, investments),
          Rat(3 * config.limits.weekly_usd_limit.n,
              2 * config.limits.weekly_usd_limit.d))

\* an iteration that stays in the loop takes units away
IterationDecreases ==
    (pc = "stock_loop" /\ pc' = "stock_loop") =>
        TotalUnits(investments') < TotalUnits(investments)

\* the loop is left within budget, or over it with no line above one unit
TerminalState ==
    pc = "stock_done" =>
        \/ WithinOneAndAHalf
        \/ /\ ~WithinOneAndAHalf
           /\ \A s \in DOMAIN investments : investments[s].shares <= 1

\* C20: the correction loop terminates: every iteration that does not exit
\* strictly decreases the total unit count, the loop is always left, and it
\* is left either with total cost <= 1.5 * budget or with no line holding
\* more than one unit.
C20_LoopTerminates ==
    /\ [][IterationDecreases]_vars
    /\ [](TerminalState)
    /\ [](pc = "stock_loop" =>
             decrements + TotalUnits(investments) = TotalUnits(first_pass))
    /\ (pc = "stock_loop") ~> (pc = "stock_done")

\* the loop iterated and was left over budget with one unit on every line
C20_Witness ==
    /\ pc = "stock_done"
    /\ decrements >= 1
    /\ ~WithinOneAndAHalf
    /\ \A s \in DOMAIN investments : investments[s].shares = 1

-----------------------------------------------------------------------------
(* Claims about one iteration of the correction loop *)

\* the place of a symbol in the iteration order of the plan
Position(sym) == CHOOSE i \in 1..Len(StockSymbols) : StockSymbols[i] = sym

\* the lines that hold more than one unit
AboveOneUnit(inv) == {s \in DOMAIN inv : inv[s].shares > 1}

\* sym has the highest price among the lines above one unit and comes first
\* among those at that price
HighestPricedFirst(inv, sym) ==
    /\ sym \in AboveOneUnit(inv)
    /\ \A t \in AboveOneUnit(inv) :
           \/ RatLT(inv[t].price, inv[sym].price)
           \/ inv[t].price = inv[sym].price /\ Position(sym) <= Position(t)

\* an iteration that stays in the loop changes the line of sym and no other
IterationReduces(sym) ==
    /\ HighestPricedFirst(investments, sym)
    /\ DOMAIN investments' = DOMAIN investments
    /\ investments'[sym].shares = investments[sym].shares - 1
    /\ investments'[sym].amount =
           Rat((investments[sym].shares - 1) * investments[sym].price.n,
               investments[sym].price.d)
    /\ investments'[sym].price = investments[sym].price
    /\ investments'[sym].ratio = investments[sym].ratio
    /\ \A t \in DOMAIN investments \ {sym} :
           investments'[t] = investments[t]

\* C21: an iteration of the correction loop takes exactly one unit from the
\* highest-priced line among those with units > 1 (the first such line in
\* iteration order on equal prices), recomputes that line's amount and
\* leaves every other line as it was; a line with one unit is never reduced.
C21_OneLineOneUnit ==
    [][(pc = "stock_loop" /\ pc' = "stock_loop") =>
          /\ \E sym \in DOMAIN investments : IterationReduces(sym)
          /\ \A t \in DOMAIN investments :
                 investments[t].shares = 1 => investments'[t].shares = 1]_vars

\* the loop has iterated on a plan whose two highest-priced lines above one
\* unit had the same price, next to a line with one unit
C21_Witness ==
    /\ pc = "stock_loop"
    /\ decrements >= 1
    /\ \E s, t \in AboveOneUnit(first_pass) :
           /\ s # t
           /\ first_pass[s].price = first_pass[t].price
           /\ HighestPricedFirst(first_pass, s)
           /\ investments[s].shares < first_pass[s].shares
    /\ \E u \in DOMAIN first_pass : first_pass[u].shares = 1

-----------------------------------------------------------------------------
(* Claims about the target amounts of the rounding pass *)

\* the sum of the ratios of the configured symbols that are priced
PricedRatioSum ==
    SumSeq(Items(StockSymbols, first_pass), config.portfolio.stock_allocation)

\* the target amounts the rounding pass computes for the priced symbols
TargetAmounts ==
    [s \in DOMAIN first_pass |->
        target_amount(config.limits.weekly_usd_limit,
                      config.portfolio.stock_allocation[s],
                      total_allocation(config.portfolio.stock_allocation))]

\* C22: the target amount of every priced symbol is budget * ratio divided
\* by the sum of the ratios of the priced symbols only, so the target amounts
\* of the priced symbols sum to the full budget.
C22_TargetsSumToBudget ==
    first_pass # <<>> =>
        /\ \A s \in DOMAIN first_pass :
               TargetAmounts[s] =
                   RatDiv(RatMul(config.limits.weekly_usd_limit,
                                 config.portfolio.stock_allocation[s]),
                          PricedRatioSum)
        /\ SumSeq(Items(StockSymbols, first_pass), TargetAmounts) =
               config.limits.weekly_usd_limit

-----------------------------------------------------------------------------
(* Claims about the amounts of an opportunity *)

\* C23: every opportunity whose symbol the configuration lists in
\* stock_allocation has base_amount = weekly_usd_limit *
\* stock_allocation[symbol] * stock_weight and suggested_amount = base_amount
\* times the multiplier of the reported tier.
C23_StockAmounts ==
    \A i \in 1..Len(detect_calls) :
        LET call == detect_calls[i]
        IN  \A s \in DOMAIN call.opportunities :
                s \in DOMAIN config.portfolio.stock_allocation =>
                    LET base == RatMul(RatMul(config.limits.weekly_usd_limit,
                                       config.portfolio.stock_allocation[s]),
                                       config.portfolio.stock_weight)
                    IN  /\ call.opportunities[s].base_amount = base
                        /\ call.opportunities[s].suggested_amount =
                               RatMul(base, MultiplierOf(
                                   call.opportunities[s].crash_level))

-----------------------------------------------------------------------------
(* Claims about the returned rebalancing amounts *)

\* target ratios summing to 1, every held value positive, a positive budget
ConservationInputs(call) ==
    /\ SumValues(StockSymbols, call.target_allocation) = RatInt(1)
    /\ DOMAIN call.current_portfolio # {}
    /\ \A s \in DOMAIN call.current_portfolio :
           call.current_portfolio[s].n > 0
    /\ call.weekly_budget.n > 0

\* C24: for target ratios summing to 1, positive holdings and a positive
\* weekly budget, the returned amounts sum to the weekly budget, whether or
\* not a symbol triggers a correction.
C24_BudgetConserved ==
    \A i \in 1..Len(rebalance_calls) :
        LET call == rebalance_calls[i]
        IN  ConservationInputs(call) =>
                /\ call.status = "returned"
                /\ SumValues(StockSymbols, call.adjustments) =
                       call.weekly_budget

\* C25: the returned mapping has exactly the symbols of targetRatios as
\* keys, each with a non-negative amount, also when the corrections consume
\* the whole weekly budget.
C25_EveryTargetSymbol ==
    \A i \in 1..Len(rebalance_calls) :
        LET call == rebalance_calls[i]
        IN  (/\ call.status = "returned"
             /\ CurrentTotal(call).n > 0
             /\ call.weekly_budget.n > 0) =>
                /\ DOMAIN call.adjustments = DOMAIN call.target_allocation
                /\ \A s \in DOMAIN call.adjustments :
                       call.adjustments[s].n >= 0

-----------------------------------------------------------------------------
(* Claims about validate_config *)

\* C26: a configuration for which validate_config reports no error has
\* neither stock_weight 0 nor stock ratios summing to 0, and
\* calculate_weekly_investment on it with strictly positive prices does not
\* fail.
C26_ValidatedConfigRuns ==
    validate_config(config) = {} =>
        /\ config.portfolio.stock_weight.n # 0
        /\ SumValues(StockSymbols, config.portfolio.stock_allocation).n # 0
        /\ \A i \in 1..Len(results) : results[i].status = "returned"

-----------------------------------------------------------------------------
(* Claims about HistoryManager.record_investment *)

\* the ids of the stored investments, in insertion order
StoredIds ==
    [i \in 1..Len(data_investments) |-> heap[data_investments[i]].id]

\* a call without 'date' or 'total_invested' returned False and left the
\* list alone; any other call returned True and appended one record, whose
\* id was set to the previous length plus one
CallAsDocumented(c) ==
    IF \E i \in 1..Len(required_fields) : required_fields[i] \notin c.keys
    THEN /\ ~c.returned
         /\ c.after = c.before
    ELSE /\ c.returned
         /\ c.after = Append(c.before, c.investment_data)
         /\ c.id = Len(c.before) + 1

\* C27: starting from an empty history, after any sequence of
\* record_investment calls the stored investments carry the ids 1..n in
\* insertion order, all distinct; a call missing a required field returns
\* False and leaves the list unchanged, a successful call appends exactly
\* one record with id = previous length + 1.
C27_IdsInInsertionOrder ==
    /\ \A i \in 1..Len(data_investments) : StoredIds[i] = i
    /\ \A k \in 1..Len(record_calls) : CallAsDocumented(record_calls[k])

-----------------------------------------------------------------------------
(* Claims about the cache of PriceFetcher *)

SymbolsOf(key) ==
    IF key = "stock_prices" THEN FetchedStocks ELSE FetchedCryptos

\* a value only a complete successful fetch produces
LiveComplete(key, value) ==
    IF key = "tao_price"
    THEN value \in 1..MaxQuote
    ELSE /\ DOMAIN value = Range(SymbolsOf(key))
         /\ \A s \in DOMAIN value : value[s] \in 1..MaxQuote

MockOf(key) ==
    IF key = "tao_price" THEN MockQuote
    ELSE [s \in Range(SymbolsOf(key)) |-> MockQuote]

\* the call found an entry whose expiry time was still ahead
Unexpired(c) == c.expiry # <<>> /\ c.at < c.expiry[1]

CacheHoldsLive ==
    /\ DOMAIN cache = DOMAIN cache_expiry
    /\ \A key \in DOMAIN cache : LiveComplete(key, cache[key])

LatestCallAsDocumented ==
    \A k \in 1..Len(fetch_call) :
        LET c == fetch_call[k]
        IN  /\ Unexpired(c) => /\ ~c.attempted
                               /\ <<c.returned>> = c.cached_before
                               /\ c.cached_after = c.cached_before
            /\ ~Unexpired(c) => c.attempted
            /\ c.returned = MockOf(c.key) => c.cached_after = c.cached_before
            /\ c.returned # MockOf(c.key) =>
                   /\ LiveComplete(c.key, c.returned)
                   /\ (c.attempted => c.cached_after = <<c.returned>>)

\* the call that follows a fallback for the same key attempts a live fetch
RefetchAfterFallback ==
    \A key \in CacheKeys :
        (/\ fell_back[key]
         /\ Len(fetch_call) = 1
         /\ fetch_call'[1].turn # fetch_call[1].turn
         /\ fetch_call'[1].key = key) => fetch_call'[1].attempted

\* C28: over any sequence of get_stock_prices / get_crypto_prices /
\* get_tao_price calls the cache only ever holds values of complete
\* successful fetches; a mock value returned after a failed or incomplete
\* fetch is never cached, so the next call for it attempts a live fetch
\* again; a cached value is returned without a fetch while the clock is
\* before its expiry time.
C28_CacheHoldsOnlyLiveFetches ==
    /\ [](CacheHoldsLive /\ LatestCallAsDocumented)
    /\ [][RefetchAfterFallback]_vars

\* a call is served from the cache while another key, whose latest call
\* fell back to the mock value, has no entry
C28_Witness ==
    /\ fetch_call # <<>>
    /\ ~fetch_call[1].attempted
    /\ fetch_call[1].cached_before = <<fetch_call[1].returned>>
    /\ \E key \in CacheKeys : fell_back[key] /\ key \notin DOMAIN cache

====
